---- MODULE Spec2Model ----
(***************************************************************************)
(* Model of generate_ship_data (src/code/data_processing.py).              *)
(*                                                                         *)
(* One call of the function is one behaviour.  pc is the position in the   *)
(* function body; raised names the exception that ended the call, if any.  *)
(* The three CSV files are inputs: their contents are chosen when the code *)
(* reads them.                                                             *)
(*                                                                         *)
(* Numbers.  Proportion and the two ratios are exact rationals, kept as    *)
(* numerator and denominator; round() is round-half-to-even, which is what *)
(* both numpy's Series.round and Python 3's round do.  For the tables and  *)
(* sample sizes drawn here the IEEE double computation of the source gives *)
(* the same integers as the exact one.  Factor scores are in hundredths,   *)
(* the weights in tenths, so an unrounded benefit is in thousandths and a  *)
(* rounded one (round(benefit, 2)) in hundredths.  A length is drawn from  *)
(* the whole metres of [Min Length, Max Length].                           *)
(***************************************************************************)
EXTENDS Integers, Sequences, FiniteSets

VARIABLES sample_size, df, SampleSize, length_ranges_df, factor_scores_df,
          ship_lengths, idx, neo_sample_size, panamax_sample_size, benefit,
          ship_lengths_df, extra_ships_needed, pc, raised

vars == <<sample_size, df, SampleSize, length_ranges_df, factor_scores_df,
          ship_lengths, idx, neo_sample_size, panamax_sample_size, benefit,
          ship_lengths_df, extra_ships_needed, pc, raised>>

(* Bounds of the inputs. *)
MaxN == 3
MaxCats == 2

(* Transit counts a Category Counts row can hold. *)
NeoCounts == 0..1
PanamaxCounts == 0..2

(* Ship types that occur in the tables.  "Panamax" is also the label the   *)
(* padding step writes into the 'Ship Type' column.                        *)
ShipTypes == {"Tanker", "Panamax"}

(* Rows a Category Counts file can hold. *)
CountRows == [ShipType : ShipTypes, NeoPanamax : NeoCounts, Panamax : PanamaxCounts]

RECURSIVE SeqsUpTo(_, _)
SeqsUpTo(S, n) ==
    IF n = 0 THEN {<<>>}
    ELSE LET shorter == SeqsUpTo(S, n - 1)
         IN  shorter \cup {Append(s, x) : s \in {t \in shorter : Len(t) = n - 1}, x \in S}

CategoryTables == SeqsUpTo(CountRows, MaxCats)

(* Rows a Length Ranges file can hold: at most one per (ship type, canal). *)
RangeRows ==
    { [ShipType |-> "Tanker",  Canal |-> "NeoPanamax", MinLength |-> 3, MaxLength |-> 3],
      [ShipType |-> "Tanker",  Canal |-> "Panamax",    MinLength |-> 1, MaxLength |-> 2],
      [ShipType |-> "Panamax", Canal |-> "NeoPanamax", MinLength |-> 4, MaxLength |-> 4],
      [ShipType |-> "Panamax", Canal |-> "Panamax",    MinLength |-> 2, MaxLength |-> 2] }

(* Rows a Benefit Factors file can hold: at most one per ship type. *)
FactorRows ==
    { [ShipType |-> "Tanker",  SI |-> 52,  EV |-> 75,  CP |-> 25,  EI |-> 100],
      [ShipType |-> "Panamax", SI |-> 100, EV |-> 100, CP |-> 100, EI |-> 100] }

(* weights = {"SI": 0.1, "EV": 0.3, "CP": 0.2, "EI": 0.4}, in tenths. *)
weights == [SI |-> 1, EV |-> 3, CP |-> 2, EI |-> 4]

----------------------------------------------------------------------------
(* Pure helpers. *)

RECURSIVE Sum(_)
Sum(s) == IF s = <<>> THEN 0 ELSE Head(s) + Sum(Tail(s))

(* round() of the non-negative rational num/den, half away from zero. *)
RoundHalfAway(num, den) ==
    LET q == num \div den
        r == num % den
    IN  IF 2 * r >= den THEN q + 1 ELSE q

(* round() of the non-negative rational num/den: numpy's and Python 3's    *)
(* round, halves to the even neighbour.                                    *)
RoundHalfEven(num, den) ==
    LET q == num \div den
        r == num % den
    IN  IF 2 * r < den THEN q
        ELSE IF 2 * r > den THEN q + 1
        ELSE IF q % 2 = 0 THEN q ELSE q + 1

(* df["Total"] = df["NeoPanamax"] + df["Panamax"] *)
Total(i) == df[i].NeoPanamax + df[i].Panamax

(* total_ships = df["Total"].sum() *)
total_ships == Sum([i \in 1..Len(df) |-> Total(i)])

(* (df["Proportion"] * sample_size).round().astype(int), row i;            *)
(* Proportion is Total(i) / total_ships.                                   *)
ProvisionalSize(i) == RoundHalfEven(Total(i) * sample_size, total_ships)

(* df["Proportion"].sort_values(ascending=False).index: the row labels by  *)
(* descending proportion.  The default sort is not stable, so rows of      *)
(* equal proportion come in any order.                                     *)
SortedIndices ==
    { p \in [1..Len(df) -> 1..Len(df)] :
        /\ \A i, j \in 1..Len(df) : i # j => p[i] # p[j]
        /\ \A i, j \in 1..Len(df) : i < j => Total(p[i]) >= Total(p[j]) }

(* The step with its sign reversed. *)
DeltaFlipped(difference) == IF difference > 0 THEN -1 ELSE 1

(* "+= 1 if difference > 0 else -1" *)
Delta(difference) == IF difference > 0 THEN 1 ELSE -1

(* The for loop over sorted_indices: one +1 or -1 per row until the        *)
(* difference is used up or the rows are.                                  *)
RECURSIVE AdjustPass(_, _, _)
AdjustPass(sizes, order, difference) ==
    IF order = <<>> \/ difference = 0 THEN sizes
    ELSE AdjustPass([sizes EXCEPT ![Head(order)] = @ + Delta(difference)],
                    Tail(order), difference - Delta(difference))

(* The split truncated and bumped instead of rounded. *)
NeoSampleSizeOffByOne(size, neo_ships, total_ships_type) ==
    IF total_ships_type > 0 THEN (size * neo_ships) \div total_ships_type + 1 ELSE 0

(* int(round(sample_size_type * neo_ratio)), 0 when the row's total is 0. *)
NeoSampleSize(size, neo_ships, total_ships_type) ==
    IF total_ships_type > 0 THEN RoundHalfEven(size * neo_ships, total_ships_type) ELSE 0

(* factor_scores_df[factor_scores_df["Ship Type"] == ship_type] *)
Factors(ship_type) == {f \in factor_scores_df : f.ShipType = ship_type}

(* The weighted sum of the first matching factor row, in thousandths. *)
WeightedScore(ship_type) ==
    LET f == CHOOSE g \in Factors(ship_type) : TRUE
    IN  weights.SI * f.SI + weights.EV * f.EV + weights.CP * f.CP + weights.EI * f.EI

(* round(benefit, 2): thousandths to hundredths. *)
Round2(x) == RoundHalfEven(x, 10)

(* length_ranges_df rows of one ship type and canal. *)
RangeRow(ship_type, canal) ==
    {r \in length_ranges_df : r.ShipType = ship_type /\ r.Canal = canal}

(* length_ranges_df[length_ranges_df["Canal"] == "Panamax"] *)
PanamaxRows == {r \in length_ranges_df : r.Canal = "Panamax"}

(* np.random.uniform(low, high) *)
Uniform(low, high) == low..high

(* The records one sub-category contributes: size draws from the range of  *)
(* the first matching row, each with the category's rounded benefit.       *)
Sampled(ship_type, canal, size) ==
    LET row == CHOOSE r \in RangeRow(ship_type, canal) : TRUE
    IN  { [k \in 1..size |-> [ShipType |-> ship_type, Canal |-> canal,
                             Length |-> lengths[k], Benefit |-> Round2(benefit[1])]] :
          lengths \in [1..size -> Uniform(row.MinLength, row.MaxLength)] }

(* A padded record labelled with the last category instead. *)
NewShipOfLastRow(length) ==
    [ShipType |-> df[Len(df)].ShipType, Canal |-> "Panamax",
     Length |-> length, Benefit |-> Round2(benefit[1])]

(* new_ship of the padding loop. *)
NewShip(length) ==
    [ShipType |-> "Panamax", Canal |-> "Panamax",
     Length |-> length, Benefit |-> Round2(benefit[1])]

----------------------------------------------------------------------------
(* The call. *)

Init ==
    /\ sample_size \in 0..MaxN
    /\ df = <<>>
    /\ SampleSize = <<>>
    /\ length_ranges_df = {}
    /\ factor_scores_df = {}
    /\ ship_lengths = <<>>
    /\ idx = 1
    /\ neo_sample_size = 0
    /\ panamax_sample_size = 0
    /\ benefit = <<>>
    /\ ship_lengths_df = <<>>
    /\ extra_ships_needed = 0
    /\ pc = "read_data"
    /\ raised = "none"

(* Step 1: df = pd.read_csv(data_csv) *)
ReadData ==
    /\ pc = "read_data"
    /\ df' \in CategoryTables
    /\ pc' = "allocate"
    /\ UNCHANGED <<sample_size, SampleSize, length_ranges_df, factor_scores_df,
                   ship_lengths, idx, neo_sample_size, panamax_sample_size, benefit,
                   ship_lengths_df, extra_ships_needed, raised>>

(* Steps 2 and 3.  With rows and a grand total of zero every Proportion is *)
(* 0/0 = NaN, and astype(int) raises on it.                                *)
Allocate ==
    /\ pc = "allocate"
    /\ IF Len(df) > 0 /\ total_ships = 0
       THEN /\ raised' = "IntCastingNaNError"
            /\ pc' = "raised"
            /\ UNCHANGED SampleSize
       ELSE /\ SampleSize' = [i \in 1..Len(df) |-> ProvisionalSize(i)]
            /\ pc' = "adjust"
            /\ UNCHANGED raised
    /\ UNCHANGED <<sample_size, df, length_ranges_df, factor_scores_df,
                   ship_lengths, idx, neo_sample_size, panamax_sample_size, benefit,
                   ship_lengths_df, extra_ships_needed>>

(* The correction left out. *)
AdjustSkipped ==
    /\ pc = "adjust"
    /\ pc' = "read_tables"
    /\ UNCHANGED <<sample_size, df, SampleSize, length_ranges_df, factor_scores_df,
                   ship_lengths, idx, neo_sample_size, panamax_sample_size, benefit,
                   ship_lengths_df, extra_ships_needed, raised>>

(* The remainder correction. *)
Adjust ==
    /\ pc = "adjust"
    /\ \E sorted_indices \in SortedIndices :
         SampleSize' = AdjustPass(SampleSize, sorted_indices,
                                  sample_size - Sum(SampleSize))
    /\ pc' = "read_tables"
    /\ UNCHANGED <<sample_size, df, length_ranges_df, factor_scores_df,
                   ship_lengths, idx, neo_sample_size, panamax_sample_size, benefit,
                   ship_lengths_df, extra_ships_needed, raised>>

(* Step 4: the two other files. *)
ReadTables ==
    /\ pc = "read_tables"
    /\ length_ranges_df' \in SUBSET RangeRows
    /\ factor_scores_df' \in SUBSET FactorRows
    /\ pc' = "loop"
    /\ UNCHANGED <<sample_size, df, SampleSize, ship_lengths, idx, neo_sample_size,
                   panamax_sample_size, benefit, ship_lengths_df,
                   extra_ships_needed, raised>>

(* if sample_size_type == 0: continue *)
SkipCategory ==
    /\ pc = "loop"
    /\ idx <= Len(df)
    /\ SampleSize[idx] = 0
    /\ idx' = idx + 1
    /\ UNCHANGED <<sample_size, df, SampleSize, length_ranges_df, factor_scores_df,
                   ship_lengths, neo_sample_size, panamax_sample_size, benefit,
                   ship_lengths_df, extra_ships_needed, pc, raised>>

(* The split of the category's sample size between the two canals. *)
SubStratify ==
    /\ pc = "loop"
    /\ idx <= Len(df)
    /\ SampleSize[idx] # 0
    /\ neo_sample_size' = NeoSampleSize(SampleSize[idx], df[idx].NeoPanamax, Total(idx))
    /\ panamax_sample_size' = SampleSize[idx] - neo_sample_size'
    /\ pc' = "factors"
    /\ UNCHANGED <<sample_size, df, SampleSize, length_ranges_df, factor_scores_df,
                   ship_lengths, idx, benefit, ship_lengths_df,
                   extra_ships_needed, raised>>

(* if factors.empty: continue *)
MissingFactors ==
    /\ pc = "factors"
    /\ Factors(df[idx].ShipType) = {}
    /\ idx' = idx + 1
    /\ pc' = "loop"
    /\ UNCHANGED <<sample_size, df, SampleSize, length_ranges_df, factor_scores_df,
                   ship_lengths, neo_sample_size, panamax_sample_size, benefit,
                   ship_lengths_df, extra_ships_needed, raised>>

(* benefit = weights["SI"] * factors["SI"] + ... *)
ScoreBenefit ==
    /\ pc = "factors"
    /\ Factors(df[idx].ShipType) # {}
    /\ benefit' = <<WeightedScore(df[idx].ShipType)>>
    /\ pc' = "neo"
    /\ UNCHANGED <<sample_size, df, SampleSize, length_ranges_df, factor_scores_df,
                   ship_lengths, idx, neo_sample_size, panamax_sample_size,
                   ship_lengths_df, extra_ships_needed, raised>>

(* Generate ship lengths for NeoPanamax ships. *)
SampleNeo ==
    /\ pc = "neo"
    /\ IF neo_sample_size > 0 /\ RangeRow(df[idx].ShipType, "NeoPanamax") # {}
       THEN \E records \in Sampled(df[idx].ShipType, "NeoPanamax", neo_sample_size) :
                ship_lengths' = ship_lengths \o records
       ELSE UNCHANGED ship_lengths
    /\ pc' = "pan"
    /\ UNCHANGED <<sample_size, df, SampleSize, length_ranges_df, factor_scores_df,
                   idx, neo_sample_size, panamax_sample_size, benefit,
                   ship_lengths_df, extra_ships_needed, raised>>

(* Generate ship lengths for Panamax ships; the end of the loop body. *)
SamplePanamax ==
    /\ pc = "pan"
    /\ IF panamax_sample_size > 0 /\ RangeRow(df[idx].ShipType, "Panamax") # {}
       THEN \E records \in Sampled(df[idx].ShipType, "Panamax", panamax_sample_size) :
                ship_lengths' = ship_lengths \o records
       ELSE UNCHANGED ship_lengths
    /\ idx' = idx + 1
    /\ pc' = "loop"
    /\ UNCHANGED <<sample_size, df, SampleSize, length_ranges_df, factor_scores_df,
                   neo_sample_size, panamax_sample_size, benefit,
                   ship_lengths_df, extra_ships_needed, raised>>

(* Step 5: ship_lengths_df = pd.DataFrame(ship_lengths) *)
Compile ==
    /\ pc = "loop"
    /\ idx > Len(df)
    /\ ship_lengths_df' = ship_lengths
    /\ pc' = "pad_while"
    /\ UNCHANGED <<sample_size, df, SampleSize, length_ranges_df, factor_scores_df,
                   ship_lengths, idx, neo_sample_size, panamax_sample_size, benefit,
                   extra_ships_needed, raised>>

(* while len(ship_lengths_df) < sample_size: ... ; return ship_lengths_df *)
PadWhile ==
    /\ pc = "pad_while"
    /\ IF Len(ship_lengths_df) < sample_size
       THEN /\ extra_ships_needed' = sample_size - Len(ship_lengths_df)
            /\ pc' = "pad_for"
       ELSE /\ pc' = "returned"
            /\ UNCHANGED extra_ships_needed
    /\ UNCHANGED <<sample_size, df, SampleSize, length_ranges_df, factor_scores_df,
                   ship_lengths, idx, neo_sample_size, panamax_sample_size, benefit,
                   ship_lengths_df, raised>>

(* A padding turn that passes over a missing fallback row. *)
PadOneSkipsMissingRow ==
    /\ pc = "pad_for"
    /\ extra_ships_needed > 0
    /\ IF PanamaxRows = {}
       THEN /\ extra_ships_needed' = extra_ships_needed - 1
            /\ UNCHANGED <<ship_lengths_df, pc, raised>>
       ELSE IF benefit = <<>>
       THEN /\ raised' = "UnboundLocalError"
            /\ pc' = "raised"
            /\ UNCHANGED <<ship_lengths_df, extra_ships_needed>>
       ELSE /\ \E panamax_row \in PanamaxRows :
                \E length \in Uniform(panamax_row.MinLength, panamax_row.MaxLength) :
                    ship_lengths_df' = Append(ship_lengths_df, NewShip(length))
            /\ extra_ships_needed' = extra_ships_needed - 1
            /\ UNCHANGED <<pc, raised>>
    /\ UNCHANGED <<sample_size, df, SampleSize, length_ranges_df, factor_scores_df,
                   ship_lengths, idx, neo_sample_size, panamax_sample_size, benefit>>

(* One turn of "for _ in range(extra_ships_needed)".  .sample(1) of no row *)
(* raises ValueError; then benefit is read, which is unbound when no       *)
(* category was scored.                                                    *)
PadOne ==
    /\ pc = "pad_for"
    /\ extra_ships_needed > 0
    /\ IF PanamaxRows = {}
       THEN /\ raised' = "ValueError"
            /\ pc' = "raised"
            /\ UNCHANGED <<ship_lengths_df, extra_ships_needed>>
       ELSE IF benefit = <<>>
       THEN /\ raised' = "UnboundLocalError"
            /\ pc' = "raised"
            /\ UNCHANGED <<ship_lengths_df, extra_ships_needed>>
       ELSE /\ \E panamax_row \in PanamaxRows :
                \E length \in Uniform(panamax_row.MinLength, panamax_row.MaxLength) :
                    ship_lengths_df' = Append(ship_lengths_df, NewShip(length))
            /\ extra_ships_needed' = extra_ships_needed - 1
            /\ UNCHANGED <<pc, raised>>
    /\ UNCHANGED <<sample_size, df, SampleSize, length_ranges_df, factor_scores_df,
                   ship_lengths, idx, neo_sample_size, panamax_sample_size, benefit>>

(* The for loop is over: back to the while test. *)
PadForDone ==
    /\ pc = "pad_for"
    /\ extra_ships_needed = 0
    /\ pc' = "pad_while"
    /\ UNCHANGED <<sample_size, df, SampleSize, length_ranges_df, factor_scores_df,
                   ship_lengths, idx, neo_sample_size, panamax_sample_size, benefit,
                   ship_lengths_df, extra_ships_needed, raised>>

Next ==
    \/ ReadData
    \/ Allocate
    \/ Adjust
    \/ ReadTables
    \/ SkipCategory
    \/ SubStratify
    \/ MissingFactors
    \/ ScoreBenefit
    \/ SampleNeo
    \/ SamplePanamax
    \/ Compile
    \/ PadWhile
    \/ PadOne
    \/ PadForDone

Spec == Init /\ [][Next]_vars

----------------------------------------------------------------------------
(* Properties. *)

Finished == pc \in {"returned", "raised"}

(* The allocation is final: steps 2 and 3 and the correction have run. *)
Allocated == pc \notin {"read_data", "allocate", "adjust"} /\ raised # "IntCastingNaNError"

(* Rows whose benefit the loop computes: a non-zero sample size and a      *)
(* factor row.                                                             *)
ScoredRows == {i \in 1..Len(df) : SampleSize[i] # 0 /\ Factors(df[i].ShipType) # {}}

LastScoredRow == CHOOSE i \in ScoredRows : \A j \in ScoredRows : j <= i

(* The records the padding loop appended. *)
PaddedPositions == (Len(ship_lengths) + 1)..Len(ship_lengths_df)

(* C1: for every sample size and every non-empty Category Counts table the *)
(* call returns, and returns exactly sample_size records, whatever is      *)
(* missing from the other two tables.                                      *)
OutputSizeInvariant ==
    (Finished /\ Len(df) > 0) =>
        (pc = "returned" /\ Len(ship_lengths_df) = sample_size)

(* C2: once the rounding and the single correction pass are done, the      *)
(* sample sizes of a table with a positive grand total sum to sample_size. *)
SumInvariant ==
    (Allocated /\ total_ships > 0) => Sum(SampleSize) = sample_size

SumInvariantWitness ==
    /\ Allocated
    /\ total_ships > 0
    /\ \E i \in 1..Len(df) : SampleSize[i] < ProvisionalSize(i)

(* C3: with a Category Counts table of zero rows the call ends in          *)
(* EmptyInputError, for any sample size, and returns nothing.              *)
EmptyInputFails ==
    (Finished /\ Len(df) = 0) => (pc = "raised" /\ raised = "EmptyInputError")

(* C4: when records are missing and Length Ranges has no "Panamax" row,    *)
(* the padding loop appends nothing and its first turn ends the call with  *)
(* an exception: it neither goes round again nor returns a short result.   *)
PaddingFailsWithoutFallbackRow ==
    [][ ( /\ pc \in {"pad_while", "pad_for"}
          /\ Len(ship_lengths_df) < sample_size
          /\ PanamaxRows = {} )
        => ( /\ ship_lengths_df' = ship_lengths_df
             /\ pc' \in {"pad_for", "raised"}
             /\ pc = "pad_for" => (pc' = "raised" /\ raised' = "ValueError") ) ]_vars

PaddingFailsWitness ==
    /\ pc = "raised"
    /\ raised = "ValueError"
    /\ PanamaxRows = {}
    /\ Len(df) > 0
    /\ Len(ship_lengths_df) < sample_size

(* C5: a zero denominator never ends the call, the grand total of zero     *)
(* included, and a row whose total is zero gets no NeoPanamax sample size  *)
(* and no records.                                                         *)
ZeroTotalNeverFatal ==
    /\ raised # "IntCastingNaNError"
    /\ Allocated => \A i \in 1..Len(df) : Total(i) = 0 => SampleSize[i] = 0
    /\ (pc \in {"factors", "neo", "pan"} /\ Total(idx) = 0) => neo_sample_size = 0

(* C6: in the returned records, those of the padding loop included, two    *)
(* records with the same 'Ship Type' have the same benefit.                *)
BenefitDeterminism ==
    pc = "returned" =>
        \A i, j \in 1..Len(ship_lengths_df) :
            ship_lengths_df[i].ShipType = ship_lengths_df[j].ShipType
                => ship_lengths_df[i].Benefit = ship_lengths_df[j].Benefit

(* C7, as stated: once a length has been sampled, no allocation step and   *)
(* no benefit-scoring step follows.                                        *)
StrictTwoPhase ==
    [][ ship_lengths # <<>> => ~(Allocate \/ Adjust \/ ScoreBenefit) ]_vars

(* C7, amended: every step that samples lengths finds the allocation       *)
(* final (summing to sample_size, and left unchanged by the step) and the  *)
(* benefit of the category it samples for already scored; scoring is per   *)
(* category, between the sampling of one category and the next.            *)
AllocateThenSample ==
    [][ ship_lengths' # ship_lengths
        => ( /\ pc \in {"neo", "pan"}
             /\ SampleSize' = SampleSize
             /\ Sum(SampleSize) = sample_size
             /\ Factors(df[idx].ShipType) # {}
             /\ benefit = <<WeightedScore(df[idx].ShipType)>> ) ]_vars

AllocateThenSampleWitness ==
    /\ pc = "neo"
    /\ idx > 1
    /\ ship_lengths # <<>>
    /\ ship_lengths[1].ShipType # df[idx].ShipType

(* C8: every final sample size is a non-negative integer, and so are the   *)
(* two canal sample sizes of a category, which add up to its sample size.  *)
AllocationsNonNegative ==
    /\ Allocated => \A i \in 1..Len(df) : SampleSize[i] \in Nat
    /\ pc \in {"factors", "neo", "pan"} =>
          /\ neo_sample_size \in Nat
          /\ panamax_sample_size \in Nat
          /\ neo_sample_size + panamax_sample_size = SampleSize[idx]

AllocationsNonNegativeWitness ==
    /\ pc = "neo"
    /\ SampleSize[idx] < ProvisionalSize(idx)
    /\ df[idx].NeoPanamax > 0
    /\ panamax_sample_size > 0

(* C9, as stated: the provisional sample size is proportion * sample_size  *)
(* rounded to the nearest integer, halves away from zero.                  *)
ProvisionalHalfAway ==
    pc = "adjust" =>
        \A i \in 1..Len(df) :
            SampleSize[i] = RoundHalfAway(Total(i) * sample_size, total_ships)

(* C9, amended: the provisional sample size k is a nearest integer to      *)
(* proportion * sample_size (|Total * sample_size - k * total_ships| is at *)
(* most total_ships / 2), and at an exact half it is the even neighbour.   *)
ProvisionalHalfEven ==
    pc = "adjust" =>
        \A i \in 1..Len(df) :
            LET twice == 2 * Total(i) * sample_size - 2 * SampleSize[i] * total_ships
            IN  /\ twice <= total_ships
                /\ -twice <= total_ships
                /\ (twice = total_ships \/ -twice = total_ships) => SampleSize[i] % 2 = 0

ProvisionalHalfEvenWitness ==
    /\ pc = "adjust"
    /\ Len(df) = 2
    /\ Total(1) = Total(2)
    /\ Total(1) > 0
    /\ sample_size = 1
    /\ SampleSize = <<0, 0>>

(* C10: a record the padding loop appended has 'Ship Type' and 'Canal'     *)
(* "Panamax" and the rounded benefit of the last row, in table order, with *)
(* a non-zero sample size and a Benefit Factors row.                       *)
PaddedRecordIsFallback ==
    \A k \in PaddedPositions :
        /\ ship_lengths_df[k].ShipType = "Panamax"
        /\ ship_lengths_df[k].Canal = "Panamax"
        /\ ScoredRows # {}
        /\ ship_lengths_df[k].Benefit = Round2(WeightedScore(df[LastScoredRow].ShipType))

PaddedRecordWitness ==
    /\ pc = "returned"
    /\ PaddedPositions # {}
    /\ ScoredRows # {}
    /\ LastScoredRow < Len(df)
    /\ SampleSize[Len(df)] # 0
    /\ df[LastScoredRow].ShipType = "Tanker"

====
